---- MODULE Spec2Model ----
(***************************************************************************)
(* A model of the CHIP-8 interpreter of src/src/chip8.c: the machine       *)
(* record chip8_t, init_chip8, handle_input, emulate_instruction and the   *)
(* main emulator loop.                                                     *)
(***************************************************************************)
EXTENDS Integers, Sequences, FiniteSets, TLC

(***************************************************************************)
(* Bounds of the model.                                                    *)
(***************************************************************************)
\* Host events delivered over one run.
MaxEvents == 3
\* Instructions the run is followed through once one of them had undefined
\* behaviour, that one included.
MaxUB == 3

(***************************************************************************)
(* Program constants.                                                      *)
(***************************************************************************)
RamSize == 4096
DisplaySize == 2048
StackSize == 12
EntryPoint == 512
WindowWidth == 64
WindowHeight == 32

QUIT == "QUIT"
RUNNING == "RUNNING"
PAUSED == "PAUSED"

Font ==
  << 240, 144, 144, 144, 240,   32,  96,  32,  32, 112,
     240,  16, 240, 128, 240,  240,  16, 240,  16, 240,
     144, 144, 240,  16,  16,  240, 128, 240,  16, 240,
     240, 128, 240, 144, 240,  240,  16,  32,  64,  64,
     240, 144, 240, 144, 240,  240, 144, 240,  16, 240,
     240, 144, 240, 144, 144,  224, 144, 224, 144, 224,
     240, 128, 128, 128, 240,  224, 144, 144, 144, 224,
     240, 128, 240, 128, 240,  240, 128, 240, 128, 128 >>

(***************************************************************************)
(* Bitwise operators of C on unsigned values.                              *)
(***************************************************************************)
RECURSIVE BitAnd(_, _)
BitAnd(a, b) ==
  IF a = 0 \/ b = 0 THEN 0
  ELSE (a % 2) * (b % 2) + 2 * BitAnd(a \div 2, b \div 2)

RECURSIVE BitOr(_, _)
BitOr(a, b) ==
  IF a = 0 THEN b
  ELSE IF b = 0 THEN a
  ELSE (IF a % 2 = 1 \/ b % 2 = 1 THEN 1 ELSE 0) + 2 * BitOr(a \div 2, b \div 2)

RECURSIVE BitXor(_, _)
BitXor(a, b) ==
  IF a = 0 THEN b
  ELSE IF b = 0 THEN a
  ELSE ((a + b) % 2) + 2 * BitXor(a \div 2, b \div 2)

(***************************************************************************)
(* The ROM files on disk.  A file that does not exist has no entry.        *)
(***************************************************************************)
Image(prog, len) == [i \in 1..len |-> IF i <= Len(prog) THEN prog[i] ELSE 0]

\* The largest ROM that fits: JP 0xFFC, zeros, and 00E0 in the last two cells.
FullRom ==
  [i \in 1..(RamSize - EntryPoint) |->
     IF i = 1 THEN \h1F ELSE IF i = 2 THEN \hFC
     ELSE IF i = RamSize - EntryPoint THEN \hE0 ELSE 0]

RomFiles ==
  [ empty   |-> << >>,
    toobig  |-> Image(<< \h12, \h00 >>, RamSize - EntryPoint + 1),
    full    |-> FullRom,
    \* 200: CALL 200
    recurse |-> << \h22, \h00 >>,
    \* 200: RET
    ret     |-> << \h00, \hEE >>,
    \* 200: CALL 206; 202: LD V0,11; 204: JP 208; 206: LD V0,22; 208: RET
    callret |-> << \h22, \h06, \h60, \h11, \h12, \h08, \h60, \h22, \h00, \hEE >>,
    \* 200: LD V0,2A; SE V0,2A; LD V0,99; SE V0,2A; LD V0,77; 20A: 0000;
    \* 20C: 0000; 20E: JP 20E
    skip    |-> << \h60, \h2A, \h30, \h2A, \h60, \h99, \h30, \h2A, \h60, \h77,
                   \h00, \h00, \h00, \h00, \h12, \h0E >>,
    \* 200: LD V0,3; LD DT,V0; LD ST,V0; 206: LD V1,DT; SE V1,0; JP 206;
    \* 20C: JP 20C
    timers  |-> << \h60, \h03, \hF0, \h15, \hF0, \h18, \hF1, \h07, \h31, \h00,
                   \h12, \h06, \h12, \h0C >>,
    \* 200: the arithmetic and skip opcodes, X = 0 and X = F; 236: JP 236
    alu     |-> << \h60, \hF0, \h61, \h1F, \h80, \h14, \h8F, \h14,
                   \h80, \h15, \h8F, \h05, \h80, \h16, \h8F, \h06,
                   \h80, \h17, \h8F, \h17, \h80, \h1E, \h8F, \h0E,
                   \h82, \h10, \h82, \h01, \h82, \h12, \h82, \h03,
                   \h82, \h08, \h72, \h05, \h32, \h00, \h42, \h00,
                   \h52, \h10, \h52, \h11, \h92, \h10, \h92, \h11,
                   \hC3, \h03, \h60, \h00, \hB2, \h36, \h12, \h36 >>,
    \* 200: LD I,000; LD V0,0; LD V1,0; DRW V0,V1,5; DRW V0,V1,5;
    \* 20A: LD V2,3E; LD V3,1E; DRW V2,V3,5; CLS; 212: LD V4,K;
    \* 214: SKNP V4; SKP V4; LD F,V4; E400; LD V4,DT; F4FF; 220: JP 220
    draw    |-> << \hA0, \h00, \h60, \h00, \h61, \h00, \hD0, \h15,
                   \hD0, \h15, \h62, \h3E, \h63, \h1E, \hD2, \h35,
                   \h00, \hE0, \hF4, \h0A, \hE4, \hA1, \hE4, \h9E,
                   \hF4, \h29, \hE4, \h00, \hF4, \h07, \hF4, \hFF,
                   \h12, \h20 >>,
    \* 200: LD V0,9C; LD I,300; LD B,V0; LD V1,7; LD [I],V1; LD V0,0;
    \* 20C: LD V1,[I]; ADD I,V1; 01E0; 212: JP 212
    mem     |-> << \h60, \h9C, \hA3, \h00, \hF0, \h33, \h61, \h07,
                   \hF1, \h55, \h60, \h00, \hF1, \h65, \hF1, \h1E,
                   \h01, \hE0, \h12, \h12 >>,
    \* 200: LD V0,9C; LD I,FFE; LD B,V0; LD V2,[I]; LD [I],V2; 20A: JP 20A
    wild    |-> << \h60, \h9C, \hAF, \hFE, \hF0, \h33, \hF2, \h65,
                   \hF2, \h55, \h12, \h0A >>,
    \* 200: LD V0,10; LD I,FFF; DRW V1,V1,2; 206: JP 206
    edge    |-> << \h60, \h10, \hAF, \hFF, \hD1, \h12, \h12, \h06 >>,
    \* 200: LD V0,12; SKP V0; SKNP V0; 206: JP 206; 208: JP 208
    index   |-> << \h60, \h12, \hE0, \h9E, \hE0, \hA1, \h12, \h06,
                   \h12, \h08 >>,
    \* 200: LD V2,7; LD I,FFE; LD [I],V2; LD V2,[I]; 208: JP 208
    spill   |-> << \h62, \h07, \hAF, \hFE, \hF2, \h55, \hF2, \h65,
                   \h12, \h08 >> ]

RomNames == DOMAIN RomFiles \cup {"missing"}

FileExists(name) == name \in DOMAIN RomFiles

(***************************************************************************)
(* Families of ROM files that set registers up and run one instruction     *)
(* under test.  A file is named by the tuple of its parameters.            *)
(***************************************************************************)
\* The rows of a sprite kept in the ROM itself.
SpriteData == << \hFF, \h81, \h00, \h01, \h80, \h7E, \hFF, \hFF, \h3C, \hC3 >>

\* 200: LD I,at; LD V2,bx; LD V3,by; DRW V2,V3,bn (the background);
\* 208: LD Vx,vx; LD V1,vy; DRW Vx,V1,n; DRW Vx,V1,n; 210: JP 210;
\* 212: SpriteData
SpriteRom(x, vx, vy, n, at, bg) ==
  LET bx == IF bg = 1 THEN (vx + 4) % 256 ELSE IF bg = 2 THEN 60 ELSE 0
      by == IF bg = 1 THEN (vy + 1) % 256 ELSE IF bg = 2 THEN 28 ELSE 0
      bn == IF bg = 1 THEN 6 ELSE IF bg = 2 THEN 8 ELSE 0
  IN << \hA0 + at \div 256, at % 256, \h62, bx, \h63, by, \hD2, \h30 + bn,
        \h60 + x, vx, \h61, vy, \hD0 + x, \h10 + n, \hD0 + x, \h10 + n,
        \h12, \h10 >> \o SpriteData

SpriteRomNames ==
  {<< "sprite", x, vx, vy, n, at, bg >> :
     x \in {0, 15}, vx \in {0, 58, 63, 70, 255}, vy \in {0, 29, 31, 40, 255},
     n \in {0, 1, 5, 8}, at \in {\h000, \h212}, bg \in {0, 1, 2}}

\* 200: LD Vx,a; LD Vy,b; 204: 8XYN; 206: JP 206
FlagRom(x, y, a, b, n) ==
  << \h60 + x, a, \h60 + y, b, \h80 + x, y * 16 + n, \h12, \h06 >>

FlagRomNames ==
  {<< "flag", x, y, a, b, n, 0 >> :
     x \in {0, 15}, y \in {0, 1, 15}, a \in {0, 1, 100, 128, 200, 255},
     b \in {0, 1, 100, 128, 200, 255}, n \in 0..15}

\* Words outside the instruction table.
Words ==
  {\h0000, \h0123, \h00E1, \h01E0, \h0FE0, \h01EE, \h0FEE,
   \h5011, \h501F, \h9011, \h901F,
   \h8018, \h8019, \h801A, \h801B, \h801C, \h801D, \h801F,
   \hE000, \hE09F, \hE1A0, \hF000, \hF008, \hF056, \hF1FF}

\* 200: CALL 206; 202: JP 202; 204: JP 204; 206: LD V0,a; LD V1,b; LD I,000;
\* 20C: DRW V0,V1,5; 20E: the word; 210: JP 210; 212: JP 212
WordRom(w, a, b) ==
  << \h22, \h06, \h12, \h02, \h12, \h04, \h60, a, \h61, b, \hA0, \h00,
     \hD0, \h15, w \div 256, w % 256, \h12, \h10, \h12, \h12 >>

WordRomNames ==
  {<< "word", w, a, b, 0, 0, 0 >> : w \in Words, a \in {1, 2}, b \in {2}}

\* 200: LD V0,v0; 202: JP, CALL or JP V0 to nnn; 204: JP 204;
\* 211: LD V0,1; SE V0,1; JP 215; 217: CALL 21D; 219: JP 219; 21B: JP 21B;
\* 21D: RET
JumpRom(k, nnn, v0) ==
  << \h60, v0, k * 16 + nnn \div 256, nnn % 256, \h12, \h04,
     0, 0, 0, 0, 0, 0, 0, 0, 0, 0, 0,
     \h60, \h01, \h30, \h01, \h12, \h15, \h22, \h1D, \h12, \h19,
     \h12, \h1B, \h00, \hEE >>

JumpRomNames ==
  {<< "jump", k, nnn, v0, 0, 0, 0 >> : k \in {1, 2}, nnn \in {\h204, \h211},
                                        v0 \in {0, 1}}
    \cup {<< "jump", 11, \h204, 0, 0, 0, 0 >>, << "jump", 11, \h203, 1, 0, 0, 0 >>,
          << "jump", 11, \h211, 0, 0, 0, 0 >>, << "jump", 11, \h210, 1, 0, 0, 0 >>}

\* 200: LD Vx,K; 202: SKP Vx; 204: SKNP Vx; 206: JP 202; 208: JP 202
KeysRom(x) ==
  << \hF0 + x, \h0A, \hE0 + x, \h9E, \hE0 + x, \hA1, \h12, \h02,
     \h12, \h02 >>

KeysRomNames == {<< "keys", x, 0, 0, 0, 0, 0 >> : x \in {0, 15}}

\* 200: LD Vx,v0; 202: LD F,Vx; 204: JP 204
GlyphRom(x, v0) == << \h60 + x, v0, \hF0 + x, \h29, \h12, \h04 >>

GlyphRomNames ==
  {<< "glyph", x, v0, 0, 0, 0, 0 >> : x \in {0, 15}, v0 \in {0, 9, 15, 16, 255}}

\* 200: CALL 204; 202: JP 202; 204: CALL 208; 206: RET; 208: CALL 20C;
\* 20A: RET; 20C: RET
NestRom ==
  << \h22, \h04, \h12, \h02, \h22, \h08, \h00, \hEE, \h22, \h0C,
     \h00, \hEE, \h00, \hEE >>

\* 200: LD V0,a; LD Vx,b; LD I,at; 206: LD [I],Vx; 208: LD Vx,[I]; 20A: JP 20A
RegsRom(x, a, b, at) ==
  << \h60, a, \h60 + x, b, \hA0 + at \div 256, at % 256, \hF0 + x, \h55,
     \hF0 + x, \h65, \h12, \h0A >>

RegsRomNames ==
  {<< "regs", x, a, b, at, 0, 0 >> :
     x \in {0, 1, 15}, a \in {0, 7}, b \in {0, 200}, at \in {\h300, \hFF0}}

\* 200: LD Vx,v; LD I,at; 204: LD B,Vx; 206: JP 206
BcdRom(x, v, at) ==
  << \h60 + x, v, \hA0 + at \div 256, at % 256, \hF0 + x, \h33, \h12, \h06 >>

BcdRomNames ==
  {<< "bcd", x, v, at, 0, 0, 0 >> :
     x \in {0, 15}, v \in {0, 7, 10, 99, 100, 156, 255}, at \in {\h300, \hFFD}}

OpRomNames ==
  SpriteRomNames \cup FlagRomNames \cup WordRomNames \cup JumpRomNames
    \cup KeysRomNames \cup GlyphRomNames \cup RegsRomNames \cup BcdRomNames
    \cup {<< k, 0, 0, 0, 0, 0, 0 >> : k \in {"nest", "skip", "timers", "alu", "mem"}}

OpRom(name) ==
  CASE name[1] = "sprite" ->
         SpriteRom(name[2], name[3], name[4], name[5], name[6], name[7])
    [] name[1] = "flag" -> FlagRom(name[2], name[3], name[4], name[5], name[6])
    [] name[1] = "word" -> WordRom(name[2], name[3], name[4])
    [] name[1] = "jump" -> JumpRom(name[2], name[3], name[4])
    [] name[1] = "keys" -> KeysRom(name[2])
    [] name[1] = "glyph" -> GlyphRom(name[2], name[3])
    [] name[1] = "nest" -> NestRom
    [] name[1] = "bcd" -> BcdRom(name[2], name[3], name[4])
    [] name[1] = "regs" -> RegsRom(name[2], name[3], name[4], name[5])
    [] OTHER -> RomFiles[name[1]]

(***************************************************************************)
(* The state: the fields of chip8_t, the host's event queue and the        *)
(* position of main.                                                       *)
(***************************************************************************)
VARIABLES
  state,        \* chip8.state
  ram,          \* chip8.ram: the cells that are not 0, by address
  display,      \* chip8.display: the set of the cells that are true
  stack,        \* chip8.stack
  sp,           \* chip8.stack_ptr - &chip8.stack[0]
  V,            \* chip8.V
  I,            \* chip8.I
  PC,           \* chip8.PC
  delay_timer,  \* chip8.delay_timer
  sound_timer,  \* chip8.sound_timer
  keypad,       \* chip8.keypad
  rom_name,     \* argv[1]
  inst,         \* chip8.inst.opcode
  events,       \* the host's queue of pending events
  delivered,    \* number of events the host has queued so far
  ub,           \* instructions executed since the first undefined behaviour
  pc            \* position of main

machine == << ram, display, stack, sp, V, I, PC, delay_timer, sound_timer >>
vars == << state, ram, display, stack, sp, V, I, PC, delay_timer, sound_timer,
           keypad, rom_name, inst, events, delivered, ub, pc >>

\* A byte array is kept as the function from the addresses of its cells that
\* are not 0 to their values: Peek reads a cell, Poke writes one, Pack keeps
\* the cells of a whole array that are not 0.
Zeroed == [a \in {} |-> 0]

Peek(mem, a) == IF a \in DOMAIN mem THEN mem[a] ELSE 0

Poke(mem, a, v) ==
  IF v = 0
  THEN [b \in DOMAIN mem \ {a} |-> mem[b]]
  ELSE [b \in DOMAIN mem \cup {a} |-> IF b = a THEN v ELSE mem[b]]

Pack(cells) == [a \in {b \in DOMAIN cells : cells[b] # 0} |-> cells[a]]

\* chip8_t chip8 = {0}
Init ==
  /\ state = QUIT
  /\ ram = Zeroed
  /\ display = {}
  /\ stack = [s \in 0..(StackSize - 1) |-> 0]
  /\ sp = 0
  /\ V = [r \in 0..15 |-> 0]
  /\ I = 0
  /\ PC = 0
  /\ delay_timer = 0
  /\ sound_timer = 0
  /\ keypad = [k \in 0..15 |-> FALSE]
  /\ rom_name \in RomNames
  /\ inst = 0
  /\ events = << >>
  /\ delivered = 0
  /\ ub = 0
  /\ pc = "init"

(***************************************************************************)
(* init_chip8                                                              *)
(***************************************************************************)
\* init_chip8 with the font copied one cell too far into ram.
LoadFontShifted(mem) ==
  Pack([a \in DOMAIN mem \cup 1..Len(Font) |->
          IF a >= 1 /\ a <= Len(Font) THEN Font[a] ELSE Peek(mem, a)])

\* memcpy(&chip8->ram[0], font, sizeof(font))
LoadFont(mem) ==
  Pack([a \in DOMAIN mem \cup 0..(Len(Font) - 1) |->
          IF a < Len(Font) THEN Font[a + 1] ELSE Peek(mem, a)])

\* fread(&chip8->ram[entry_point], rom_size, 1, rom)
LoadRom(mem, bytes) ==
  Pack([a \in DOMAIN mem \cup EntryPoint..(EntryPoint + Len(bytes) - 1) |->
          IF a >= EntryPoint /\ a < EntryPoint + Len(bytes)
          THEN bytes[a - EntryPoint + 1] ELSE Peek(mem, a)])

\* The number of items fread returns for one item of rom_size bytes.
FreadItems(rom_size) == IF rom_size = 0 THEN 0 ELSE 1

RomAccepted(name) ==
  /\ FileExists(name)
  /\ Len(RomFiles[name]) <= RamSize - EntryPoint
  /\ FreadItems(Len(RomFiles[name])) = 1

InitChip8 ==
  /\ pc = "init"
  /\ IF RomAccepted(rom_name)
     THEN /\ ram' = LoadRom(LoadFont(ram), RomFiles[rom_name])
          /\ state' = RUNNING
          /\ PC' = EntryPoint
          /\ sp' = 0
          /\ pc' = "loop"
     ELSE /\ ram' = LoadFont(ram)
          /\ pc' = "failed"
          /\ UNCHANGED << state, PC, sp >>
  /\ UNCHANGED << display, stack, V, I, delay_timer, sound_timer, keypad,
                  rom_name, inst, events, delivered, ub >>

\* main after init_chip8 has loaded a file of OpRomNames.
InitOps ==
  /\ rom_name \in OpRomNames
  /\ state = RUNNING
  /\ ram = LoadRom(LoadFont(Zeroed), OpRom(rom_name))
  /\ display = {}
  /\ stack = [s \in 0..(StackSize - 1) |-> 0]
  /\ sp = 0
  /\ V = [r \in 0..15 |-> 0]
  /\ I = 0
  /\ PC = EntryPoint
  /\ delay_timer = 0
  /\ sound_timer = 0
  /\ keypad = [k \in 0..15 |-> FALSE]
  /\ inst = 0
  /\ events = << >>
  /\ delivered = 0
  /\ ub = 0
  /\ pc = "loop"

(***************************************************************************)
(* The host's events and handle_input                                      *)
(***************************************************************************)
KeySyms == {"1", "2", "3", "4", "q", "w", "e", "r", "t",
            "a", "s", "d", "f", "z", "x", "c", "v"}

\* The key symbols the host sends in this model.
HostSyms == {"ESCAPE", "SPACE", "x"}

HostEvents ==
  {<< "SDL_QUIT", "" >>}
    \cup {<< "SDL_KEYDOWN", k >> : k \in HostSyms}
    \cup {<< "SDL_KEYUP", k >> : k \in HostSyms \ {"ESCAPE", "SPACE"}}

\* The keypad entry of a key symbol, -1 for the default branch.
KeyOf(sym) ==
  CASE sym = "1" -> 1  [] sym = "2" -> 2  [] sym = "3" -> 3  [] sym = "4" -> 12
    [] sym = "q" -> 4  [] sym = "w" -> 5  [] sym = "r" -> 6  [] sym = "t" -> 13
    [] sym = "a" -> 7  [] sym = "s" -> 8  [] sym = "d" -> 9  [] sym = "f" -> 14
    [] sym = "z" -> 10 [] sym = "x" -> 0  [] sym = "c" -> 11 [] sym = "v" -> 15
    [] OTHER -> -1

SetKey(kp, sym, down) ==
  IF KeyOf(sym) = -1 THEN kp ELSE [kp EXCEPT ![KeyOf(sym)] = down]

\* handle_input with the escape key handled as any other key.
RECURSIVE PollEventsEscapeIgnored(_, _, _)
PollEventsEscapeIgnored(q, st, kp) ==
  IF q = << >> THEN [events |-> q, state |-> st, keypad |-> kp]
  ELSE LET ev == Head(q)
           rest == Tail(q)
       IN CASE ev[1] = "SDL_QUIT" ->
                 [events |-> rest, state |-> QUIT, keypad |-> kp]
            [] ev[1] = "SDL_KEYDOWN" /\ ev[2] = "SPACE" ->
                 [events |-> rest,
                  state |-> IF st = RUNNING THEN PAUSED ELSE RUNNING,
                  keypad |-> kp]
            [] ev[1] = "SDL_KEYDOWN" /\ ev[2] # "SPACE" ->
                 PollEventsEscapeIgnored(rest, st, SetKey(kp, ev[2], TRUE))
            [] ev[1] = "SDL_KEYUP" ->
                 PollEventsEscapeIgnored(rest, st, SetKey(kp, ev[2], FALSE))
            [] OTHER -> PollEventsEscapeIgnored(rest, st, kp)

\* The loop of handle_input: the queue, run state and keypad when it returns.
RECURSIVE PollEvents(_, _, _)
PollEvents(q, st, kp) ==
  IF q = << >> THEN [events |-> q, state |-> st, keypad |-> kp]
  ELSE LET ev == Head(q)
           rest == Tail(q)
       IN CASE ev[1] = "SDL_QUIT" ->
                 [events |-> rest, state |-> QUIT, keypad |-> kp]
            [] ev[1] = "SDL_KEYDOWN" /\ ev[2] = "ESCAPE" ->
                 [events |-> rest, state |-> QUIT, keypad |-> kp]
            [] ev[1] = "SDL_KEYDOWN" /\ ev[2] = "SPACE" ->
                 [events |-> rest,
                  state |-> IF st = RUNNING THEN PAUSED ELSE RUNNING,
                  keypad |-> kp]
            [] ev[1] = "SDL_KEYDOWN" /\ ev[2] \notin {"ESCAPE", "SPACE"} ->
                 PollEvents(rest, st, SetKey(kp, ev[2], TRUE))
            [] ev[1] = "SDL_KEYUP" ->
                 PollEvents(rest, st, SetKey(kp, ev[2], FALSE))
            [] OTHER -> PollEvents(rest, st, kp)

\* The host queues an event.  The queue is read by handle_input only, so an
\* event that arrives during a frame is seen exactly as one that arrives
\* before the next call of handle_input.
HostEvent ==
  /\ pc = "loop"
  /\ state # QUIT
  /\ delivered < MaxEvents
  /\ \E ev \in HostEvents : events' = Append(events, ev)
  /\ delivered' = delivered + 1
  /\ UNCHANGED << state, machine, keypad, rom_name, inst, ub, pc >>

\* The keys the host presses and releases while a keys program of OpRomNames
\* runs: e has no case in handle_input, the others have one.
HostKeySyms == {"x", "e", "r", "v"}

HostKeyEvents ==
  {<< type, k >> : type \in {"SDL_KEYDOWN", "SDL_KEYUP"}, k \in HostKeySyms}

\* The host queues a key event.  Only the keys programs read the keypad, so
\* the host is silent on the other programs of OpRomNames.
HostKeyEvent ==
  /\ pc = "loop"
  /\ rom_name[1] = "keys"
  /\ delivered < MaxEvents
  /\ \E ev \in HostKeyEvents : events' = Append(events, ev)
  /\ delivered' = delivered + 1
  /\ UNCHANGED << state, machine, keypad, rom_name, inst, ub, pc >>

\* while(chip8.state != QUIT) { handle_input(&chip8); ...
HandleInput ==
  /\ pc = "loop"
  /\ state # QUIT
  /\ LET r == PollEvents(events, state, keypad)
     IN /\ events' = r.events
        /\ state' = r.state
        /\ keypad' = r.keypad
  /\ pc' = "frame"
  /\ UNCHANGED << machine, rom_name, inst, delivered, ub >>

\* if(chip8.state == PAUSED) continue;
PausedContinue ==
  /\ pc = "frame"
  /\ state = PAUSED
  /\ pc' = "loop"
  /\ UNCHANGED << state, machine, keypad, rom_name, inst, events, delivered, ub >>

\* The loop condition fails: final_cleanup and exit(EXIT_SUCCESS).
LoopExit ==
  /\ pc = "loop"
  /\ state = QUIT
  /\ pc' = "done"
  /\ UNCHANGED << state, machine, keypad, rom_name, inst, events, delivered, ub >>

(***************************************************************************)
(* emulate_instruction: fetch and decode                                   *)
(***************************************************************************)
\* The values a read outside the object it indexes can yield.
UBBytes == {0, 1}

NNN(op) == op % 4096
NN(op) == op % 256
N(op) == op % 16
X(op) == (op \div 256) % 16
Y(op) == (op \div 16) % 16
Top(op) == (op \div 4096) % 16

\* chip8->ram[a] as an rvalue
RamRead(a) == IF a \in 0..(RamSize - 1) THEN {Peek(ram, a)} ELSE UBBytes

\* (chip8->ram[chip8->PC] << 8) | chip8->ram[chip8->PC+1]
Fetched == {hi * 256 + lo : hi \in RamRead(PC), lo \in RamRead(PC + 1)}

\* chip8->PC += 2 on a uint16_t
NextPC == (PC + 2) % 65536

\* The rows of a sprite DXYN reads: it stops after the row on the bottom edge.
SpriteRows(op) ==
  LET left == WindowHeight - (V[Y(op)] % WindowHeight)
  IN IF N(op) < left THEN N(op) ELSE left

\* The instruction reads or writes outside ram, stack or keypad.
InstrUB(op) ==
  \/ PC + 1 >= RamSize
  \/ Top(op) = 0 /\ NN(op) = \hEE /\ (sp - 1) \notin 0..(StackSize - 1)
  \/ Top(op) = 2 /\ sp \notin 0..(StackSize - 1)
  \/ Top(op) = 13 /\ N(op) > 0 /\ I + SpriteRows(op) - 1 >= RamSize
  \/ Top(op) = 14 /\ NN(op) \in {\h9E, \hA1} /\ V[X(op)] > 15
  \/ Top(op) = 15 /\ NN(op) = \h33 /\ I + 2 >= RamSize
  \/ Top(op) = 15 /\ NN(op) \in {\h55, \h65} /\ I + X(op) >= RamSize

Garbage(op) == IF InstrUB(op) THEN UBBytes ELSE {0}
Landing(op) == IF InstrUB(op) THEN BOOLEAN ELSE {FALSE}

\* An instruction that main lets run although the machine is paused.
StepWhilePaused(op) ==
  /\ pc = "frame"
  /\ ub < MaxUB
  /\ ub' = IF ub > 0 \/ InstrUB(op) THEN ub + 1 ELSE ub
  /\ inst' = op
  /\ pc' = "loop"
  /\ UNCHANGED << state, keypad, rom_name, events, delivered >>

\* What every instruction does to the fields that are not the machine's.
Step(op) ==
  /\ pc = "frame"
  /\ state # PAUSED
  /\ ub < MaxUB
  /\ ub' = IF ub > 0 \/ InstrUB(op) THEN ub + 1 ELSE ub
  /\ inst' = op
  /\ pc' = "loop"
  /\ UNCHANGED << state, keypad, rom_name, events, delivered >>

\* Undefined behaviour ends the process (segmentation fault, sanitizer), at the
\* access or later.
UBCrash ==
  /\ pc = "frame"
  /\ state # PAUSED
  /\ ub > 0 \/ \E op \in Fetched : InstrUB(op)
  /\ pc' = "crashed"
  /\ UNCHANGED << state, machine, keypad, rom_name, inst, events, delivered, ub >>

\* The byte read at ram[a]; g is what a read outside ram yields.
Load(a, g) == IF a < RamSize THEN Peek(ram, a) ELSE g

\* display[p] = on
SetPixel(d, p, on) == IF on THEN d \cup {p} ELSE d \ {p}

\* ram[a] = v on the pair m of ram and display: display follows ram in
\* chip8_t, so a write past ram lands there (land) or is lost.
Store(m, a, v, land) ==
  IF a < RamSize THEN [m EXCEPT !.ram = Poke(@, a, v)]
  ELSE IF land /\ a - RamSize < DisplaySize
       THEN [m EXCEPT !.display = SetPixel(@, a - RamSize, v # 0)]
       ELSE m

(***************************************************************************)
(* emulate_instruction: the opcodes                                        *)
(***************************************************************************)
\* 00E0: memset(&chip8->display[0], false, sizeof chip8->display)
Op00E0 ==
  \E op \in Fetched :
    /\ Step(op)
    /\ Top(op) = 0 /\ NN(op) = \hE0
    /\ display' = {}
    /\ PC' = NextPC
    /\ UNCHANGED << ram, stack, sp, V, I, delay_timer, sound_timer >>

\* 00EE returning to the oldest address on the stack instead of the newest.
Op00EEPopsOldest ==
  \E op \in Fetched :
    /\ Step(op)
    /\ Top(op) = 0 /\ NN(op) = \hEE
    /\ sp' = sp - 1
    /\ IF (sp - 1) \in 0..(StackSize - 1)
       THEN PC' = stack[0]
       ELSE \E lo \in UBBytes, hi \in UBBytes : PC' = hi * 256 + lo
    /\ UNCHANGED << ram, display, stack, V, I, delay_timer, sound_timer >>

\* 00EE: chip8->PC = *--chip8->stack_ptr
Op00EE ==
  \E op \in Fetched :
    /\ Step(op)
    /\ Top(op) = 0 /\ NN(op) = \hEE
    /\ sp' = sp - 1
    /\ IF (sp - 1) \in 0..(StackSize - 1)
       THEN PC' = stack[sp - 1]
       ELSE \E lo \in UBBytes, hi \in UBBytes : PC' = hi * 256 + lo
    /\ UNCHANGED << ram, display, stack, V, I, delay_timer, sound_timer >>

\* 0NNN other than 00E0 and 00EE: the empty else branch
Op0NNN ==
  \E op \in Fetched :
    /\ Step(op)
    /\ Top(op) = 0 /\ NN(op) \notin {\hE0, \hEE}
    /\ PC' = NextPC
    /\ UNCHANGED << ram, display, stack, sp, V, I, delay_timer, sound_timer >>

\* 1NNN: chip8->PC = chip8->inst.NNN
Op1NNN ==
  \E op \in Fetched :
    /\ Step(op)
    /\ Top(op) = 1
    /\ PC' = NNN(op)
    /\ UNCHANGED << ram, display, stack, sp, V, I, delay_timer, sound_timer >>

\* *chip8->stack_ptr = pcv where stack_ptr is outside the stack: the slots
\* below stack[0] are the last cells of display.
StackStoreOutside(pcv, land) ==
  IF land /\ sp < 0 /\ DisplaySize + 2 * sp >= 0
  THEN SetPixel(SetPixel(display, DisplaySize + 2 * sp, pcv % 256 # 0),
                DisplaySize + 2 * sp + 1, pcv \div 256 # 0)
  ELSE display

\* 2NNN pushing the address of the call itself instead of the address of the
\* instruction after it.
Op2NNNPushesCallAddress ==
  \E op \in Fetched :
    /\ Step(op)
    /\ Top(op) = 2
    /\ IF sp \in 0..(StackSize - 1)
       THEN /\ stack' = [stack EXCEPT ![sp] = PC]
            /\ UNCHANGED display
       ELSE /\ \E land \in BOOLEAN : display' = StackStoreOutside(PC, land)
            /\ UNCHANGED stack
    /\ sp' = sp + 1
    /\ PC' = NNN(op)
    /\ UNCHANGED << ram, V, I, delay_timer, sound_timer >>

\* 2NNN: *chip8->stack_ptr++ = chip8->PC; chip8->PC = chip8->inst.NNN
Op2NNN ==
  \E op \in Fetched :
    /\ Step(op)
    /\ Top(op) = 2
    /\ IF sp \in 0..(StackSize - 1)
       THEN /\ stack' = [stack EXCEPT ![sp] = NextPC]
            /\ UNCHANGED display
       ELSE /\ \E land \in BOOLEAN : display' = StackStoreOutside(NextPC, land)
            /\ UNCHANGED stack
    /\ sp' = sp + 1
    /\ PC' = NNN(op)
    /\ UNCHANGED << ram, V, I, delay_timer, sound_timer >>

\* A skip that moves PC past one byte of the next instruction only.
SkipIfByOne(cond) == IF cond THEN (NextPC + 1) % 65536 ELSE NextPC

\* The PC after a conditional skip.
SkipIf(cond) == IF cond THEN (NextPC + 2) % 65536 ELSE NextPC

\* 3XNN with the test of 4XNN: it skips when V[X] differs from NN.
Op3XNNSkipsIfDifferent ==
  \E op \in Fetched :
    /\ Step(op)
    /\ Top(op) = 3
    /\ PC' = SkipIf(V[X(op)] # NN(op))
    /\ UNCHANGED << ram, display, stack, sp, V, I, delay_timer, sound_timer >>

\* 3XNN
Op3XNN ==
  \E op \in Fetched :
    /\ Step(op)
    /\ Top(op) = 3
    /\ PC' = SkipIf(V[X(op)] = NN(op))
    /\ UNCHANGED << ram, display, stack, sp, V, I, delay_timer, sound_timer >>

\* 4XNN
Op4XNN ==
  \E op \in Fetched :
    /\ Step(op)
    /\ Top(op) = 4
    /\ PC' = SkipIf(V[X(op)] # NN(op))
    /\ UNCHANGED << ram, display, stack, sp, V, I, delay_timer, sound_timer >>

\* 5XY0; a low nibble other than 0 breaks out
Op5XY0 ==
  \E op \in Fetched :
    /\ Step(op)
    /\ Top(op) = 5
    /\ PC' = SkipIf(N(op) = 0 /\ V[X(op)] = V[Y(op)])
    /\ UNCHANGED << ram, display, stack, sp, V, I, delay_timer, sound_timer >>

\* 6XNN
Op6XNN ==
  \E op \in Fetched :
    /\ Step(op)
    /\ Top(op) = 6
    /\ V' = [V EXCEPT ![X(op)] = NN(op)]
    /\ PC' = NextPC
    /\ UNCHANGED << ram, display, stack, sp, I, delay_timer, sound_timer >>

\* 7XNN
Op7XNN ==
  \E op \in Fetched :
    /\ Step(op)
    /\ Top(op) = 7
    /\ V' = [V EXCEPT ![X(op)] = (@ + NN(op)) % 256]
    /\ PC' = NextPC
    /\ UNCHANGED << ram, display, stack, sp, I, delay_timer, sound_timer >>

(***************************************************************************)
(* emulate_instruction: 8XYN.  The registers are written in the order of   *)
(* the statements, so the second write wins when X is F.                   *)
(***************************************************************************)
\* 8XY0: V[X] = V[Y]
Op8XY0 ==
  \E op \in Fetched :
    /\ Step(op)
    /\ Top(op) = 8 /\ N(op) = 0
    /\ V' = [V EXCEPT ![X(op)] = V[Y(op)]]
    /\ PC' = NextPC
    /\ UNCHANGED << ram, display, stack, sp, I, delay_timer, sound_timer >>

\* 8XY1: V[X] |= V[Y]
Op8XY1 ==
  \E op \in Fetched :
    /\ Step(op)
    /\ Top(op) = 8 /\ N(op) = 1
    /\ V' = [V EXCEPT ![X(op)] = BitOr(@, V[Y(op)])]
    /\ PC' = NextPC
    /\ UNCHANGED << ram, display, stack, sp, I, delay_timer, sound_timer >>

\* 8XY2: V[X] &= V[Y]
Op8XY2 ==
  \E op \in Fetched :
    /\ Step(op)
    /\ Top(op) = 8 /\ N(op) = 2
    /\ V' = [V EXCEPT ![X(op)] = BitAnd(@, V[Y(op)])]
    /\ PC' = NextPC
    /\ UNCHANGED << ram, display, stack, sp, I, delay_timer, sound_timer >>

\* 8XY3: V[X] ^= V[Y]
Op8XY3 ==
  \E op \in Fetched :
    /\ Step(op)
    /\ Top(op) = 8 /\ N(op) = 3
    /\ V' = [V EXCEPT ![X(op)] = BitXor(@, V[Y(op)])]
    /\ PC' = NextPC
    /\ UNCHANGED << ram, display, stack, sp, I, delay_timer, sound_timer >>

\* 8XY4: carry = (uint16_t)(V[X] + V[Y]) > 255; V[X] += V[Y]; V[0xF] = carry
Op8XY4 ==
  \E op \in Fetched :
    /\ Step(op)
    /\ Top(op) = 8 /\ N(op) = 4
    /\ V' = LET carry == IF (V[X(op)] + V[Y(op)]) % 65536 > 255 THEN 1 ELSE 0
               V1 == [V EXCEPT ![X(op)] = (@ + V[Y(op)]) % 256]
           IN [V1 EXCEPT ![15] = carry]
    /\ PC' = NextPC
    /\ UNCHANGED << ram, display, stack, sp, I, delay_timer, sound_timer >>

\* 8XY5 with the flag cleared when the operands are equal (V[Y] < V[X]).
Op8XY5StrictBorrow ==
  \E op \in Fetched :
    /\ Step(op)
    /\ Top(op) = 8 /\ N(op) = 5
    /\ V' = LET carry == IF V[Y(op)] < V[X(op)] THEN 1 ELSE 0
               V1 == [V EXCEPT ![X(op)] = (@ - V[Y(op)]) % 256]
           IN [V1 EXCEPT ![15] = carry]
    /\ PC' = NextPC
    /\ UNCHANGED << ram, display, stack, sp, I, delay_timer, sound_timer >>

\* 8XY5: carry = V[Y] <= V[X]; V[X] -= V[Y]; V[0xF] = carry
Op8XY5 ==
  \E op \in Fetched :
    /\ Step(op)
    /\ Top(op) = 8 /\ N(op) = 5
    /\ V' = LET carry == IF V[Y(op)] <= V[X(op)] THEN 1 ELSE 0
               V1 == [V EXCEPT ![X(op)] = (@ - V[Y(op)]) % 256]
           IN [V1 EXCEPT ![15] = carry]
    /\ PC' = NextPC
    /\ UNCHANGED << ram, display, stack, sp, I, delay_timer, sound_timer >>

\* 8XY6: V[0xF] = V[X] & 1; V[X] >>= 1
Op8XY6 ==
  \E op \in Fetched :
    /\ Step(op)
    /\ Top(op) = 8 /\ N(op) = 6
    /\ V' = LET V1 == [V EXCEPT ![15] = V[X(op)] % 2]
           IN [V1 EXCEPT ![X(op)] = @ \div 2]
    /\ PC' = NextPC
    /\ UNCHANGED << ram, display, stack, sp, I, delay_timer, sound_timer >>

\* 8XY7: carry = V[X] <= V[Y]; V[X] = V[Y] - V[X]; V[0xF] = carry
Op8XY7 ==
  \E op \in Fetched :
    /\ Step(op)
    /\ Top(op) = 8 /\ N(op) = 7
    /\ V' = LET carry == IF V[X(op)] <= V[Y(op)] THEN 1 ELSE 0
               V1 == [V EXCEPT ![X(op)] = (V[Y(op)] - @) % 256]
           IN [V1 EXCEPT ![15] = carry]
    /\ PC' = NextPC
    /\ UNCHANGED << ram, display, stack, sp, I, delay_timer, sound_timer >>

\* 8XYE: V[0xF] = (V[X] & 0x80) >> 7; V[X] <<= 1
Op8XYE ==
  \E op \in Fetched :
    /\ Step(op)
    /\ Top(op) = 8 /\ N(op) = 14
    /\ V' = LET V1 == [V EXCEPT ![15] = BitAnd(V[X(op)], 128) \div 128]
           IN [V1 EXCEPT ![X(op)] = (@ * 2) % 256]
    /\ PC' = NextPC
    /\ UNCHANGED << ram, display, stack, sp, I, delay_timer, sound_timer >>

\* 8XYN with another N: the default branch
Op8XYdefault ==
  \E op \in Fetched :
    /\ Step(op)
    /\ Top(op) = 8 /\ N(op) \notin {0, 1, 2, 3, 4, 5, 6, 7, 14}
    /\ PC' = NextPC
    /\ UNCHANGED << ram, display, stack, sp, V, I, delay_timer, sound_timer >>

\* 9XYN: skips if V[X] != V[Y]; the low nibble is not looked at
Op9XY0 ==
  \E op \in Fetched :
    /\ Step(op)
    /\ Top(op) = 9
    /\ PC' = SkipIf(V[X(op)] # V[Y(op)])
    /\ UNCHANGED << ram, display, stack, sp, V, I, delay_timer, sound_timer >>

\* ANNN
OpANNN ==
  \E op \in Fetched :
    /\ Step(op)
    /\ Top(op) = 10
    /\ I' = NNN(op)
    /\ PC' = NextPC
    /\ UNCHANGED << ram, display, stack, sp, V, delay_timer, sound_timer >>

\* BNNN: chip8->PC = chip8->inst.NNN + chip8->V[0x0]
OpBNNN ==
  \E op \in Fetched :
    /\ Step(op)
    /\ Top(op) = 11
    /\ PC' = (NNN(op) + V[0]) % 65536
    /\ UNCHANGED << ram, display, stack, sp, V, I, delay_timer, sound_timer >>

\* CXNN: (rand() % 256) & NN
OpCXNN ==
  \E op \in Fetched :
    /\ Step(op)
    /\ Top(op) = 12
    /\ \E r \in 0..255 : V' = [V EXCEPT ![X(op)] = BitAnd(r, NN(op))]
    /\ PC' = NextPC
    /\ UNCHANGED << ram, display, stack, sp, I, delay_timer, sound_timer >>

(***************************************************************************)
(* emulate_instruction: DXYN                                               *)
(***************************************************************************)
\* The inner loop with the set bits of the sprite lighting the pixels instead
\* of flipping them.
DrawRowSetsPixels(r, sprite_data, X_coord, Y_coord) ==
  LET cols == {c \in 0..7 : X_coord + c < WindowWidth}
      bits == {Y_coord * WindowWidth + X_coord + c :
                 c \in {k \in cols : (sprite_data \div (2 ^ (7 - k))) % 2 = 1}}
  IN [display |-> r.display \cup bits,
      VF |-> IF bits \cap r.display # {} THEN 1 ELSE r.VF]

\* The inner loop with VF set by every set bit of the sprite, lit pixel or not.
DrawRowFlagsEveryBit(r, sprite_data, X_coord, Y_coord) ==
  LET cols == {c \in 0..7 : X_coord + c < WindowWidth}
      bits == {Y_coord * WindowWidth + X_coord + c :
                 c \in {k \in cols : (sprite_data \div (2 ^ (7 - k))) % 2 = 1}}
  IN [display |-> (r.display \ bits) \cup (bits \ r.display),
      VF |-> IF bits # {} THEN 1 ELSE r.VF]

\* The inner loop over j = 7..0 on the pair r of display and VF.  The columns
\* drawn are those before ++X_coord reaches the right edge; each pixel is
\* visited once, so the loop sets VF when a set bit meets a lit pixel and
\* flips the pixels under the set bits.
DrawRow(r, sprite_data, X_coord, Y_coord) ==
  LET cols == {c \in 0..7 : X_coord + c < WindowWidth}
      bits == {Y_coord * WindowWidth + X_coord + c :
                 c \in {k \in cols : (sprite_data \div (2 ^ (7 - k))) % 2 = 1}}
  IN [display |-> (r.display \ bits) \cup (bits \ r.display),
      VF |-> IF bits \cap r.display # {} THEN 1 ELSE r.VF]

\* The outer loop over i = 0..N-1.
RECURSIVE DrawSprite(_, _, _, _, _, _)
DrawSprite(r, i, n, orig_X, Y_coord, g) ==
  IF i >= n THEN r
  ELSE LET r1 == DrawRow(r, Load(I + i, g), orig_X, Y_coord)
       IN IF Y_coord + 1 >= WindowHeight
          THEN r1
          ELSE DrawSprite(r1, i + 1, n, orig_X, Y_coord + 1, g)

OpDXYN ==
  \E op \in Fetched :
    /\ Step(op)
    /\ Top(op) = 13
    /\ \E g \in Garbage(op) :
         LET r == DrawSprite([display |-> display, VF |-> 0], 0, N(op),
                             V[X(op)] % WindowWidth, V[Y(op)] % WindowHeight, g)
         IN /\ display' = r.display
            /\ V' = [V EXCEPT ![15] = r.VF]
    /\ PC' = NextPC
    /\ UNCHANGED << ram, stack, sp, I, delay_timer, sound_timer >>

(***************************************************************************)
(* emulate_instruction: EXNN                                               *)
(***************************************************************************)
\* chip8->keypad[chip8->V[X]]: V[X] above 15 indexes past the keypad.
KeyHeld(x) == IF V[x] <= 15 THEN {keypad[V[x]]} ELSE BOOLEAN

OpEX9E ==
  \E op \in Fetched :
    /\ Step(op)
    /\ Top(op) = 14 /\ NN(op) = \h9E
    /\ \E held \in KeyHeld(X(op)) : PC' = SkipIf(held)
    /\ UNCHANGED << ram, display, stack, sp, V, I, delay_timer, sound_timer >>

OpEXA1 ==
  \E op \in Fetched :
    /\ Step(op)
    /\ Top(op) = 14 /\ NN(op) = \hA1
    /\ \E held \in KeyHeld(X(op)) : PC' = SkipIf(~held)
    /\ UNCHANGED << ram, display, stack, sp, V, I, delay_timer, sound_timer >>

\* EXNN with another NN: neither branch
OpEXdefault ==
  \E op \in Fetched :
    /\ Step(op)
    /\ Top(op) = 14 /\ NN(op) \notin {\h9E, \hA1}
    /\ PC' = NextPC
    /\ UNCHANGED << ram, display, stack, sp, V, I, delay_timer, sound_timer >>

(***************************************************************************)
(* emulate_instruction: FXNN                                               *)
(***************************************************************************)
\* FX07
OpFX07 ==
  \E op \in Fetched :
    /\ Step(op)
    /\ Top(op) = 15 /\ NN(op) = \h07
    /\ V' = [V EXCEPT ![X(op)] = delay_timer]
    /\ PC' = NextPC
    /\ UNCHANGED << ram, display, stack, sp, I, delay_timer, sound_timer >>

\* The keys the loop of FX0A finds held.
HeldKeys == {k \in 0..15 : keypad[k]}

\* The loop of FX0A running from keypad[15] down: the last held key wins.
HighestKey == CHOOSE k \in HeldKeys : \A m \in HeldKeys : k >= m

\* The first i with keypad[i] set.
LowestKey == CHOOSE k \in HeldKeys : \A m \in HeldKeys : k <= m

\* FX0A
OpFX0A ==
  \E op \in Fetched :
    /\ Step(op)
    /\ Top(op) = 15 /\ NN(op) = \h0A
    /\ IF HeldKeys # {}
       THEN /\ V' = [V EXCEPT ![X(op)] = LowestKey]
            /\ PC' = NextPC
       ELSE /\ PC' = (NextPC - 2) % 65536
            /\ UNCHANGED V
    /\ UNCHANGED << ram, display, stack, sp, I, delay_timer, sound_timer >>

\* FX15
OpFX15 ==
  \E op \in Fetched :
    /\ Step(op)
    /\ Top(op) = 15 /\ NN(op) = \h15
    /\ delay_timer' = V[X(op)]
    /\ PC' = NextPC
    /\ UNCHANGED << ram, display, stack, sp, V, I, sound_timer >>

\* FX18
OpFX18 ==
  \E op \in Fetched :
    /\ Step(op)
    /\ Top(op) = 15 /\ NN(op) = \h18
    /\ sound_timer' = V[X(op)]
    /\ PC' = NextPC
    /\ UNCHANGED << ram, display, stack, sp, V, I, delay_timer >>

\* FX1E: chip8->I += chip8->V[X] on a uint16_t
OpFX1E ==
  \E op \in Fetched :
    /\ Step(op)
    /\ Top(op) = 15 /\ NN(op) = \h1E
    /\ I' = (I + V[X(op)]) % 65536
    /\ PC' = NextPC
    /\ UNCHANGED << ram, display, stack, sp, V, delay_timer, sound_timer >>

\* FX29: chip8->I = chip8->V[X] * 5
OpFX29 ==
  \E op \in Fetched :
    /\ Step(op)
    /\ Top(op) = 15 /\ NN(op) = \h29
    /\ I' = V[X(op)] * 5
    /\ PC' = NextPC
    /\ UNCHANGED << ram, display, stack, sp, V, delay_timer, sound_timer >>

\* FX33: ram[I+2], ram[I+1], ram[I] in this order
StoreBCD(m, bcd, land) ==
  LET m1 == Store(m, I + 2, bcd % 10, land)
      m2 == Store(m1, I + 1, (bcd \div 10) % 10, land)
  IN Store(m2, I, ((bcd \div 10) \div 10) % 10, land)

OpFX33 ==
  \E op \in Fetched :
    /\ Step(op)
    /\ Top(op) = 15 /\ NN(op) = \h33
    /\ \E land \in Landing(op) :
         LET m == StoreBCD([ram |-> ram, display |-> display], V[X(op)], land)
         IN /\ ram' = m.ram
            /\ display' = m.display
    /\ PC' = NextPC
    /\ UNCHANGED << stack, sp, V, I, delay_timer, sound_timer >>

\* FX55: for(int i = 0; i <= X; i++) ram[I + i] = V[i]
RECURSIVE StoreRegs(_, _, _, _)
StoreRegs(m, i, x, land) ==
  IF i > x THEN m ELSE StoreRegs(Store(m, I + i, V[i], land), i + 1, x, land)

OpFX55 ==
  \E op \in Fetched :
    /\ Step(op)
    /\ Top(op) = 15 /\ NN(op) = \h55
    /\ \E land \in Landing(op) :
         LET m == StoreRegs([ram |-> ram, display |-> display], 0, X(op), land)
         IN /\ ram' = m.ram
            /\ display' = m.display
    /\ PC' = NextPC
    /\ UNCHANGED << stack, sp, V, I, delay_timer, sound_timer >>

\* FX65: for(int i = 0; i <= X; i++) V[i] = ram[I + i]
RECURSIVE LoadRegs(_, _, _, _)
LoadRegs(regs, i, x, g) ==
  IF i > x THEN regs ELSE LoadRegs([regs EXCEPT ![i] = Load(I + i, g)], i + 1, x, g)

OpFX65 ==
  \E op \in Fetched :
    /\ Step(op)
    /\ Top(op) = 15 /\ NN(op) = \h65
    /\ \E g \in Garbage(op) : V' = LoadRegs(V, 0, X(op), g)
    /\ PC' = NextPC
    /\ UNCHANGED << ram, display, stack, sp, I, delay_timer, sound_timer >>

\* FXNN with another NN: the default branch
OpFXdefault ==
  \E op \in Fetched :
    /\ Step(op)
    /\ Top(op) = 15
    /\ NN(op) \notin {\h07, \h0A, \h15, \h18, \h1E, \h29, \h33, \h55, \h65}
    /\ PC' = NextPC
    /\ UNCHANGED << ram, display, stack, sp, V, I, delay_timer, sound_timer >>

(***************************************************************************)
(* The program                                                             *)
(***************************************************************************)
EmulateInstruction ==
  \/ Op00E0 \/ Op00EE \/ Op0NNN \/ Op1NNN \/ Op2NNN \/ Op3XNN \/ Op4XNN
  \/ Op5XY0 \/ Op6XNN \/ Op7XNN
  \/ Op8XY0 \/ Op8XY1 \/ Op8XY2 \/ Op8XY3 \/ Op8XY4 \/ Op8XY5 \/ Op8XY6
  \/ Op8XY7 \/ Op8XYE \/ Op8XYdefault
  \/ Op9XY0 \/ OpANNN \/ OpBNNN \/ OpCXNN \/ OpDXYN
  \/ OpEX9E \/ OpEXA1 \/ OpEXdefault
  \/ OpFX07 \/ OpFX0A \/ OpFX15 \/ OpFX18 \/ OpFX1E \/ OpFX29 \/ OpFX33
  \/ OpFX55 \/ OpFX65 \/ OpFXdefault

MainLoop == HandleInput \/ PausedContinue \/ EmulateInstruction \/ LoopExit

Next == InitChip8 \/ HostEvent \/ MainLoop \/ UBCrash

Spec == Init /\ [][Next]_vars

\* The main loop on the files of OpRomNames: only key events arrive, so the
\* machine is never paused and never quits.
NextOps == HostKeyEvent \/ HandleInput \/ EmulateInstruction

OpSpec == InitOps /\ [][NextOps]_vars

(***************************************************************************)
(* Steps the properties speak about                                        *)
(***************************************************************************)
\* One call of emulate_instruction that returns; inst' is its opcode.
Executed == pc = "frame" /\ state # PAUSED /\ pc' = "loop"

\* One call of handle_input.
InputStep == pc = "loop" /\ pc' = "frame"

QuitEvents == {<< "SDL_QUIT", "" >>, << "SDL_KEYDOWN", "ESCAPE" >>}
ToggleEvent == << "SDL_KEYDOWN", "SPACE" >>
ControlEvents == QuitEvents \cup {ToggleEvent}

\* The queue holds a quit request or escape with no toggle before it.
QuitComesFirst(q) ==
  \E i \in 1..Len(q) :
    /\ q[i] \in QuitEvents
    /\ \A j \in 1..(i - 1) : q[j] \notin ControlEvents

(***************************************************************************)
(* C1: in every reachable state the call stack holds between 0 and 12      *)
(* return addresses: the stack top is never below the first slot or past   *)
(* the last one.                                                           *)
(***************************************************************************)
C1_StackDepthWithinCapacity == sp >= 0 /\ sp <= 12

(***************************************************************************)
(* C2: 00EE on an empty stack and 2NNN on a full stack stop the run with   *)
(* an error: no such instruction returns to the loop with a stack slot     *)
(* read or written and a new PC.                                           *)
(***************************************************************************)
C2_StackErrorsStopTheRun ==
  [][~ /\ Executed
       /\ \/ inst' = \h00EE /\ sp = 0
          \/ Top(inst') = 2 /\ sp = 12]_vars

(***************************************************************************)
(* C3: at every instruction fetch 0x000 <= PC <= 0xFFE, so both fetched    *)
(* bytes lie inside the 4096 bytes of memory.                              *)
(***************************************************************************)
C3_FetchInsideMemory ==
  (pc = "frame" /\ state # PAUSED) => (PC >= 0 /\ PC <= 4094)

(***************************************************************************)
(* C4: the accesses of FX33, FX55 and FX65 at offset k from I go to cell   *)
(* (I + k) mod 4096: FX33 leaves the three digits of V[X] there, FX55      *)
(* leaves V[k] there and FX65 reads V[k] from there.                       *)
(***************************************************************************)
C4_IndexedAccessWraps ==
  [][Executed /\ Top(inst') = 15 =>
       LET x == X(inst')
       IN /\ NN(inst') = \h33 =>
               /\ Peek(ram', (I + 2) % 4096) = V[x] % 10
               /\ Peek(ram', (I + 1) % 4096) = (V[x] \div 10) % 10
               /\ Peek(ram', I % 4096) = V[x] \div 100
          /\ NN(inst') = \h55 =>
               \A k \in 0..x : Peek(ram', (I + k) % 4096) = V[k]
          /\ NN(inst') = \h65 =>
               \A k \in 0..x : V'[k] = Peek(ram, (I + k) % 4096)]_vars

(***************************************************************************)
(* C5: in every frame that runs, each of the two timers goes down by 1 if  *)
(* it was above 0 and stays 0 otherwise, unless the instruction of the     *)
(* frame is the one that sets it.                                          *)
(***************************************************************************)
C5_TimersTickEachFrame ==
  [][Executed /\ state = RUNNING =>
       /\ ~(Top(inst') = 15 /\ NN(inst') = \h15) =>
            delay_timer' = IF delay_timer > 0 THEN delay_timer - 1 ELSE 0
       /\ ~(Top(inst') = 15 /\ NN(inst') = \h18) =>
            sound_timer' = IF sound_timer > 0 THEN sound_timer - 1 ELSE 0]_vars

(***************************************************************************)
(* C6: an iteration whose input handling leaves the run state at Quit or   *)
(* Paused executes no instruction: PC, V, I, memory, stack and display are *)
(* after it what they were before it.                                      *)
(***************************************************************************)
C6_OnlyRunningExecutes ==
  [][pc = "frame" /\ state \in {QUIT, PAUSED} =>
       UNCHANGED << PC, V, I, ram, stack, sp, display >>]_vars

(***************************************************************************)
(* C7: the toggle key switches Running to Paused and Paused to Running and *)
(* changes nothing else; no step taken while Paused changes PC, V, I,      *)
(* memory, stack, timers or display, and a call of handle_input while      *)
(* Paused still consumes the pending key events and updates the keypad.    *)
(***************************************************************************)
C7_PauseFreezesMachine ==
  [][/\ state = PAUSED => UNCHANGED machine
     /\ (InputStep /\ events # << >> /\ Head(events) = ToggleEvent) =>
          /\ state' = IF state = RUNNING THEN PAUSED ELSE RUNNING
          /\ events' = Tail(events)
          /\ UNCHANGED << machine, keypad >>
     /\ (InputStep /\ state = PAUSED
           /\ \A i \in 1..Len(events) : events[i] \notin ControlEvents) =>
          /\ events' = << >>
          /\ state' = PAUSED
          /\ \A i \in 1..Len(events) :
               (\A j \in (i + 1)..Len(events) : events[j][2] # "x")
                 /\ events[i][2] = "x"
                 => keypad'[0] = (events[i][1] = "SDL_KEYDOWN")]_vars

\* Paused after some instructions, with a key press waiting in the queue.
C7_Witness ==
  /\ state = PAUSED
  /\ pc = "loop"
  /\ inst # 0
  /\ events = << << "SDL_KEYDOWN", "x" >> >>
  /\ ~keypad[0]

(***************************************************************************)
(* C8: a quit request or an escape key press handled while Running or      *)
(* Paused sets the run state to Quit; Quit is never left; once the state   *)
(* is Quit the loop ends: its test is the next step and is the exit, with  *)
(* at most the rest of the current iteration before it; and the loop ends  *)
(* normally only in Quit.                                                  *)
(***************************************************************************)
C8_QuitEndsTheLoop ==
  /\ [][/\ (InputStep /\ QuitComesFirst(events)) => state' = QUIT
        /\ (state = QUIT /\ pc # "init") => state' = QUIT
        /\ (state = QUIT /\ pc = "loop") => pc' = "done"
        /\ (state = QUIT /\ pc = "frame") => pc' \in {"loop", "crashed"}
        /\ pc' = "done" => state' = QUIT]_vars
  /\ [](state = QUIT /\ pc = "loop" => ENABLED LoopExit)

\* The loop has ended after a quit that came while the machine was paused
\* or running some instructions.
C8_Witness == pc = "done" /\ state = QUIT /\ inst # 0 /\ delivered > 1

(***************************************************************************)
(* C9: when the execution of a frame's instruction starts, no host event   *)
(* that was pending at the start of the frame is still in the queue.       *)
(***************************************************************************)
C9_InputDrainedBeforeExecution ==
  (pc = "frame" /\ state = RUNNING) => events = << >>

(***************************************************************************)
(* C10: loading a readable ROM of length len succeeds if and only if       *)
(* len <= 3584, which includes len = 0; on success the cell 0x200 + i      *)
(* holds byte i of the ROM.                                                *)
(***************************************************************************)
C10_LoadAcceptsUpTo3584 ==
  (pc # "init" /\ FileExists(rom_name)) =>
     /\ (pc # "failed") <=> (Len(RomFiles[rom_name]) <= 3584)
     /\ (pc = "loop" /\ inst = 0 /\ PC = 512) =>
          \A i \in 1..Len(RomFiles[rom_name]) :
            Peek(ram, 512 + i - 1) = RomFiles[rom_name][i]

(***************************************************************************)
(* C11: when init_chip8 has loaded a ROM and no instruction has run yet,   *)
(* PC is 0x200, the stack is empty, the machine is running, V0..VF, I,     *)
(* both timers, the keypad and the framebuffer are all zero, cells 0x000   *)
(* to 0x04F hold the font table and every cell outside the font table and  *)
(* the ROM image is 0.                                                     *)
(***************************************************************************)
C11_StateAfterLoad ==
  [][pc = "init" /\ pc' = "loop" =>
       /\ PC' = \h200
       /\ sp' = 0
       /\ state' = RUNNING
       /\ V' = [r \in 0..15 |-> 0]
       /\ I' = 0
       /\ delay_timer' = 0
       /\ sound_timer' = 0
       /\ keypad' = [k \in 0..15 |-> FALSE]
       /\ display' = {}
       /\ \A a \in 0..\h04F : Peek(ram', a) = Font[a + 1]
       /\ \A a \in \h050..\hFFF :
            (a < \h200 \/ a >= \h200 + Len(RomFiles[rom_name]))
              => Peek(ram', a) = 0]_vars

\* A ROM is loaded, the host has sent nothing and no instruction has run.
C11_Witness ==
  /\ pc = "loop"
  /\ rom_name = "draw"
  /\ inst = 0
  /\ delivered = 0
  /\ PC = \h200
  /\ Peek(ram, \h200) = \hA0
  /\ Peek(ram, \h04F) = \h80

(***************************************************************************)
(* C12: DXYN with origin x0 = V[X] mod 64, y0 = V[Y] mod 32 toggles the    *)
(* pixel (x0 + col, y0 + row) exactly when row < N, col < 8, x0 + col < 64,*)
(* y0 + row < 32 and bit 7 - col of mem[I + row] is 1, memory being the    *)
(* 4096 cells 0x000..0xFFF; every other pixel, memory, I, the stack and    *)
(* the registers other than VF are unchanged.                              *)
(***************************************************************************)
C12_DrawTogglesSpritePixels ==
  [][Executed /\ Top(inst') = 13 =>
       LET op == inst'
           x0 == V[X(op)] % 64
           y0 == V[Y(op)] % 32
           Set == {rc \in (0..14) \X (0..7) :
                     /\ rc[1] < N(op)
                     /\ x0 + rc[2] < 64
                     /\ y0 + rc[1] < 32
                     /\ (Peek(ram, (I + rc[1]) % 4096)
                           \div (2 ^ (7 - rc[2]))) % 2 = 1}
           Toggled == {(y0 + rc[1]) * 64 + x0 + rc[2] : rc \in Set}
       IN /\ display' = (display \ Toggled) \cup (Toggled \ display)
          /\ ram' = ram
          /\ I' = I
          /\ stack' = stack
          /\ sp' = sp
          /\ \A r \in 0..14 : V'[r] = V[r]]_vars

(***************************************************************************)
(* C13: after DXYN, VF is 1 exactly when some pixel that was lit before    *)
(* the draw is dark after it, and 0 otherwise, whatever VF held before;    *)
(* the bits of the sprite that fall past the right or bottom edge touch no *)
(* pixel and so cause no collision.                                        *)
(***************************************************************************)
C13_CollisionFlag ==
  [][Executed /\ Top(inst') = 13 =>
       /\ V'[15] \in {0, 1}
       /\ V'[15] = 1 <=> \E p \in display : p \notin display']_vars

\* A draw that met lit pixels, and a draw of a sprite cut by both edges, with
\* VF = 63 before it, that met none.
C13_Witness ==
  /\ pc = "loop"
  /\ Top(inst) = 13
  /\ rom_name[1] = "sprite"
  /\ \/ rom_name[7] = 1 /\ PC = \h20E /\ V[15] = 1 /\ display # {}
     \/ /\ rom_name = << "sprite", 15, 63, 31, 5, \h212, 0 >>
        /\ PC = \h20E /\ V[15] = 0 /\ display = {31 * 64 + 63}

(***************************************************************************)
(* C14: DXYN executed twice with the same sprite (same I, sprite bytes and *)
(* N) at the same coordinates restores the framebuffer to its state before *)
(* the first draw, and VF = 1 after the second draw.  The first draw is    *)
(* the step taken; the second is the draw of the same opcode on its result *)
(* with the same V[X], V[Y] and sprite bytes.                              *)
(***************************************************************************)
C14_DrawTwiceRestores ==
  [][Executed /\ Top(inst') = 13 =>
       \E g \in Garbage(inst') :
         LET x0 == V[X(inst')] % WindowWidth
             y0 == V[Y(inst')] % WindowHeight
             first == DrawSprite([display |-> display, VF |-> 0],
                                 0, N(inst'), x0, y0, g)
             second == DrawSprite([display |-> first.display, VF |-> 0],
                                  0, N(inst'), x0, y0, g)
         IN /\ display' = first.display
            /\ second.display = display
            /\ second.VF = 1]_vars

(***************************************************************************)
(* C14, amended: DXYN executed twice with the same sprite at the same      *)
(* coordinates restores the framebuffer to its state before the first      *)
(* draw; VF after the second draw is 1 exactly when the first draw lit a   *)
(* pixel, that is when the sprite has a set bit on a visible pixel that    *)
(* was dark before the first draw, and 0 otherwise (N = 0, rows that are   *)
(* all 0, a sprite drawn wholly over lit pixels).                          *)
(***************************************************************************)
C14_DrawTwiceRestoresAmended ==
  [][Executed /\ Top(inst') = 13 =>
       \E g \in Garbage(inst') :
         LET x0 == V[X(inst')] % WindowWidth
             y0 == V[Y(inst')] % WindowHeight
             first == DrawSprite([display |-> display, VF |-> 0],
                                 0, N(inst'), x0, y0, g)
             second == DrawSprite([display |-> first.display, VF |-> 0],
                                  0, N(inst'), x0, y0, g)
         IN /\ display' = first.display
            /\ second.display = display
            /\ second.VF = 1 <=> \E p \in display' : p \notin display]_vars

\* The second of two equal draws on a lit background has run: the background
\* is back and VF = 1.
C14_Witness ==
  /\ pc = "loop"
  /\ rom_name = << "sprite", 0, 58, 29, 5, \h212, 2 >>
  /\ PC = \h210
  /\ Top(inst) = 13
  /\ V[15] = 1
  /\ display # {}

(***************************************************************************)
(* C15: the framebuffer is changed by 00E0 and DXYN only: any other        *)
(* instruction leaves every cell as it was, FX33 and FX55 included for     *)
(* every value of I; 00E0 sets every cell to false, so that a second 00E0  *)
(* changes nothing more.                                                   *)
(***************************************************************************)
C15_FramebufferWriters ==
  [][Executed =>
       /\ (inst' # \h00E0 /\ Top(inst') # 13) => display' = display
       /\ inst' = \h00E0 => display' = {}]_vars

(***************************************************************************)
(* C16: 8XY4, 8XY5, 8XY6, 8XY7 and 8XYE with X = F leave in VF the flag    *)
(* computed from the operands before the instruction (carry, no borrow,    *)
(* the bit shifted out), not the sum, difference or shifted value: the     *)
(* flag is written after the result.                                       *)
(***************************************************************************)
C16_FlagWrittenLast ==
  [][Executed /\ Top(inst') = 8 /\ X(inst') = 15
       /\ N(inst') \in {4, 5, 6, 7, 14} =>
       LET vx == V[15]
           vy == V[Y(inst')]
       IN V'[15] =
            CASE N(inst') = 4 -> IF vx + vy > 255 THEN 1 ELSE 0
              [] N(inst') = 5 -> IF vx >= vy THEN 1 ELSE 0
              [] N(inst') = 6 -> vx % 2
              [] N(inst') = 7 -> IF vy >= vx THEN 1 ELSE 0
              [] N(inst') = 14 -> vx \div 128]_vars

(***************************************************************************)
(* C17: right after 8XY4, 8XY5, 8XY6, 8XY7, 8XYE or DXYN, for every X and  *)
(* Y, F included, and every register contents, VF is 0 or 1.               *)
(***************************************************************************)
C17_FlagIsZeroOrOne ==
  [][Executed /\ \/ Top(inst') = 8 /\ N(inst') \in {4, 5, 6, 7, 14}
                 \/ Top(inst') = 13
       => V'[15] \in {0, 1}]_vars

(***************************************************************************)
(* C18: a word that is not an opcode of the instruction table (0NNN other  *)
(* than 00E0 and 00EE, 5XYN and 9XYN with N # 0, 8XYN with N in 8..D or F, *)
(* EXNN and FXNN with an unlisted NN) is a silent no-op: PC advances by 2, *)
(* no skip is taken, and no register, I, memory cell, stack entry, timer,  *)
(* keypad entry or framebuffer cell changes.                               *)
(***************************************************************************)
C18_UnknownWordsDoNothing ==
  [][LET w == inst'
         listed ==
           \/ w \in {\h00E0, \h00EE}
           \/ Top(w) \in {1, 2, 3, 4, 6, 7, 10, 11, 12, 13}
           \/ Top(w) \in {5, 9} /\ N(w) = 0
           \/ Top(w) = 8 /\ N(w) \in (0..7) \cup {14}
           \/ Top(w) = 14 /\ NN(w) \in {\h9E, \hA1}
           \/ Top(w) = 15 /\ NN(w) \in {\h07, \h0A, \h15, \h18, \h1E, \h29,
                                         \h33, \h55, \h65}
     IN Executed /\ ~listed =>
          /\ PC' = PC + 2
          /\ UNCHANGED << ram, display, stack, sp, V, I, delay_timer,
                          sound_timer, keypad >>]_vars

(***************************************************************************)
(* C19: PC is even at every instruction fetch, in every reachable state,   *)
(* for any ROM and any sequence of jumps, calls, returns and skips.        *)
(***************************************************************************)
C19_PCEvenAtFetch == pc = "frame" /\ state # PAUSED => PC % 2 = 0

(***************************************************************************)
(* C19, amended: an instruction that is not a jump, call or return leaves  *)
(* the parity of PC as it was at its fetch (PC moves by 2, by 4 on a skip, *)
(* by 0 when FX0A waits); 1NNN and 2NNN set PC to NNN and BNNN to NNN + V0 *)
(* whatever their parity; 2NNN on a stack that is not full pushes the      *)
(* fetch address + 2 and 00EE on a stack that is not empty sets PC to the  *)
(* address on top of it.  So PC is even at a fetch when it was even at the *)
(* fetch before and the instruction between was not a jump or call to an   *)
(* odd address or a return to one.                                         *)
(***************************************************************************)
C19_PCParityAmended ==
  [][Executed =>
       /\ CASE Top(inst') \in {1, 2} -> PC' = NNN(inst')
            [] Top(inst') = 11 -> PC' = NNN(inst') + V[0]
            [] Top(inst') = 0 /\ NN(inst') = \hEE ->
                 sp \in 1..12 => PC' = stack[sp - 1]
            [] OTHER -> PC' % 2 = PC % 2
       /\ Top(inst') = 2 /\ sp \in 0..11 => stack'[sp] = (PC + 2) % 65536]_vars

\* A program that jumped to 0x211 has run a load, a taken skip and a call at
\* odd addresses and has returned to the odd address the call pushed.
C19_Witness ==
  /\ pc = "loop"
  /\ rom_name = << "jump", 1, \h211, 0, 0, 0, 0 >>
  /\ inst = \h00EE
  /\ PC = \h219
  /\ sp = 0
  /\ stack[0] = \h219

(***************************************************************************)
(* C20: with the bytes 22 06 60 11 12 08 60 22 00 EE loaded at 0x200, and  *)
(* PC = 0x200, the stack empty and all V = 0 at the start, after exactly 4 *)
(* instructions V0 = 0x11, PC = 0x208 and the stack is empty.  The steps   *)
(* are counted by the opcode of the instruction before: the first follows  *)
(* no instruction, the second the call 2206, the third the load 6022 and   *)
(* the fourth the return 00EE.                                             *)
(***************************************************************************)
C20_CallReturnScenario ==
  [][rom_name = "callret" /\ Executed /\ ub = 0 =>
       \/ /\ inst = 0 /\ PC = \h200 /\ sp = 0 /\ V = [r \in 0..15 |-> 0]
          /\ inst' = \h2206
       \/ inst = \h2206 /\ inst' = \h6022
       \/ inst = \h6022 /\ inst' = \h00EE
       \/ /\ inst = \h00EE /\ inst' = \h6011
          /\ V'[0] = \h11 /\ PC' = \h208 /\ sp' = 0
       \/ inst \in {\h6011, \h1208}]_vars

(***************************************************************************)
(* C20, amended: in the same scenario, after exactly 4 instructions (call, *)
(* load 0x22, return, load 0x11) V0 = 0x11, PC = 0x204 and the stack is    *)
(* empty; PC = 0x208 only after the fifth instruction, the jump 1208.      *)
(***************************************************************************)
C20_CallReturnScenarioAmended ==
  [][rom_name = "callret" /\ Executed /\ ub = 0 =>
       \/ /\ inst = 0 /\ PC = \h200 /\ sp = 0 /\ V = [r \in 0..15 |-> 0]
          /\ inst' = \h2206
       \/ inst = \h2206 /\ inst' = \h6022
       \/ inst = \h6022 /\ inst' = \h00EE
       \/ /\ inst = \h00EE /\ inst' = \h6011
          /\ V'[0] = \h11 /\ PC' = \h204 /\ sp' = 0
       \/ /\ inst = \h6011 /\ inst' = \h1208
          /\ V'[0] = \h11 /\ PC' = \h208 /\ sp' = 0
       \/ inst = \h1208]_vars

\* The fourth instruction of the scenario has run.
C20_Witness ==
  /\ pc = "loop"
  /\ rom_name = "callret"
  /\ inst = \h6011
  /\ V[0] = \h11
  /\ PC = \h204
  /\ sp = 0
  /\ ub = 0

(***************************************************************************)
(* C21: with the bytes 60 2A 30 2A 60 99 30 2A 60 77 loaded at 0x200, and  *)
(* PC = 0x200, the stack empty and all V = 0 at the start, after 5         *)
(* instructions V0 = 0x99: the first 3XNN skips and the second does not.   *)
(* The steps are told apart by the opcode of the instruction before and    *)
(* the PC: the fifth is the one fetched at 0x20C, or at 0x208 if the       *)
(* second skip is not taken.                                               *)
(***************************************************************************)
C21_SkipEqualScenario ==
  [][rom_name = "skip" /\ Executed /\ ub = 0 =>
       \/ /\ PC = \h200 /\ sp = 0 /\ V = [r \in 0..15 |-> 0]
          /\ inst' = \h602A
       \/ PC = \h202 /\ inst' = \h302A /\ PC' = \h206
       \/ PC = \h206 /\ inst' = \h302A /\ PC' = \h208
       \/ PC = \h208 /\ inst' = \h6077
       \/ PC \in {\h20A, \h20C} /\ inst' = 0 /\ V'[0] = \h99
       \/ PC = \h20E]_vars

(***************************************************************************)
(* C21, amended: in the same scenario both skips are taken, because the    *)
(* first one jumps over the load of 0x99 and V0 is still 0x2A at the       *)
(* second: the five instructions are 602A, 302A at 0x202, 302A at 0x206    *)
(* and the zero words at 0x20A and 0x20C, and after them V0 = 0x2A and     *)
(* PC = 0x20E.                                                             *)
(***************************************************************************)
C21_SkipEqualScenarioAmended ==
  [][rom_name = "skip" /\ Executed /\ ub = 0 =>
       \/ /\ PC = \h200 /\ inst = 0 /\ sp = 0 /\ V = [r \in 0..15 |-> 0]
          /\ inst' = \h602A /\ PC' = \h202 /\ V'[0] = \h2A
       \/ /\ PC = \h202 /\ inst = \h602A
          /\ inst' = \h302A /\ PC' = \h206 /\ V'[0] = \h2A
       \/ /\ PC = \h206 /\ inst = \h302A
          /\ inst' = \h302A /\ PC' = \h20A /\ V'[0] = \h2A
       \/ /\ PC = \h20A /\ inst = \h302A
          /\ inst' = 0 /\ PC' = \h20C /\ V'[0] = \h2A
       \/ /\ PC = \h20C /\ inst = 0
          /\ inst' = 0 /\ PC' = \h20E /\ V'[0] = \h2A /\ sp' = 0
       \/ PC = \h20E]_vars

\* The fifth instruction of the scenario has run.
C21_Witness ==
  /\ pc = "loop"
  /\ rom_name = "skip"
  /\ inst = 0
  /\ PC = \h20E
  /\ V[0] = \h2A
  /\ ub = 0

(***************************************************************************)
(* C22: after handle_input has processed a queue of key events, keypad[k]  *)
(* follows the host key that the canonical map assigns to k (1 2 3 4 ->    *)
(* 1 2 3 C; Q W E R -> 4 5 6 D; A S D F -> 7 8 9 E; Z X C V -> A 0 B F):   *)
(* it is true if the last event of that key in the queue is a key down,    *)
(* false if it is a key up, and unchanged if the queue has no event of     *)
(* that key.  In particular E drives keypad 6 and R drives keypad D.       *)
(***************************************************************************)
C22_KeypadFollowsCanonicalMap ==
  [][InputStep /\ (\A i \in 1..Len(events) :
                     /\ events[i][1] \in {"SDL_KEYDOWN", "SDL_KEYUP"}
                     /\ events[i][2] \notin {"ESCAPE", "SPACE"}) =>
       LET canonical == << "x", "1", "2", "3", "q", "w", "e", "a",
                           "s", "d", "z", "c", "4", "r", "f", "v" >>
           Of(k) == {i \in 1..Len(events) : events[i][2] = canonical[k + 1]}
           Last(k) == CHOOSE i \in Of(k) : \A j \in Of(k) : j <= i
       IN \A k \in 0..15 :
            keypad'[k] = IF Of(k) = {} THEN keypad[k]
                         ELSE events[Last(k)][1] = "SDL_KEYDOWN"]_vars

(***************************************************************************)
(* C23: FX0A at address a blocks until a key is held.  Executed while no   *)
(* key is held it leaves PC = a and V, I, memory, the stack, the timers    *)
(* and the framebuffer unchanged, so the same instruction is fetched       *)
(* again; executed while a key is held it stores the lowest index of the   *)
(* held keys in V[X], sets PC = a + 2 and changes nothing else.            *)
(***************************************************************************)
C23_WaitForKey ==
  [][Executed /\ Top(inst') = 15 /\ NN(inst') = \h0A /\ ub = 0 =>
       IF \A k \in 0..15 : ~keypad[k]
       THEN /\ PC' = PC
            /\ UNCHANGED << V, I, ram, stack, sp, delay_timer, sound_timer,
                            display >>
       ELSE /\ PC' = PC + 2
            /\ \E k \in 0..15 :
                 /\ keypad[k]
                 /\ \A m \in 0..(k - 1) : ~keypad[m]
                 /\ V' = [V EXCEPT ![X(inst')] = k]
            /\ UNCHANGED << I, ram, stack, sp, delay_timer, sound_timer,
                            display >>]_vars

\* FX0A has run with the keys 6 and F held: V0 holds 6, the lower of them.
C23_Witness ==
  /\ pc = "loop"
  /\ rom_name = << "keys", 0, 0, 0, 0, 0, 0 >>
  /\ inst = \hF00A
  /\ keypad[6] /\ keypad[15] /\ ~keypad[0]
  /\ V[0] = 6
  /\ PC = \h202
  /\ ub = 0

(***************************************************************************)
(* C24: within the capacity of the stack, 2NNN at address a stores a + 2   *)
(* in the slot at the top, raises the depth by one and sets PC = NNN, and  *)
(* 00EE sets PC to the newest stored address, lowers the depth by one and  *)
(* leaves the slots alone.  So the returns come in the reverse order of    *)
(* the calls, and after a call and its return PC = a + 2 with the depth    *)
(* and the entries below it as before the call.                            *)
(***************************************************************************)
C24_CallReturnLIFO ==
  [][Executed /\ ub = 0 =>
       /\ Top(inst') = 2 /\ sp \in 0..(StackSize - 1) =>
            /\ stack' = [stack EXCEPT ![sp] = PC + 2]
            /\ sp' = sp + 1
            /\ PC' = NNN(inst')
       /\ inst' = \h00EE /\ sp \in 1..StackSize =>
            /\ PC' = stack[sp - 1]
            /\ sp' = sp - 1
            /\ stack' = stack]_vars

\* Three nested calls have returned in reverse order: the last return leads to
\* 0x202, the address after the first call, with the stack empty.
C24_Witness ==
  /\ pc = "loop"
  /\ rom_name = << "nest", 0, 0, 0, 0, 0, 0 >>
  /\ inst = \h00EE
  /\ PC = \h202
  /\ sp = 0
  /\ stack[0] = \h202 /\ stack[1] = \h206 /\ stack[2] = \h20A
  /\ ub = 0

(***************************************************************************)
(* C25: for every value of V[X], EX9E skips the next instruction exactly   *)
(* when the key (V[X] AND 0xF) is held and EXA1 exactly when it is not, so *)
(* in any state exactly one of the two would skip.                         *)
(***************************************************************************)
C25_KeySkipsMaskIndex ==
  [][Executed /\ Top(inst') = 14 =>
       LET held == keypad[V[X(inst')] % 16]
       IN /\ NN(inst') = \h9E => PC' = IF held THEN PC + 4 ELSE PC + 2
          /\ NN(inst') = \hA1 => PC' = IF held THEN PC + 2 ELSE PC + 4]_vars

(***************************************************************************)
(* C26: after FX29, I = (V[X] AND 0x0F) * 5 for every value of V[X], so I  *)
(* is the address of one of the 16 glyphs of the font: a multiple of 5     *)
(* that is at most 0x4B.                                                   *)
(***************************************************************************)
C26_GlyphAddressMasked ==
  [][Executed /\ Top(inst') = 15 /\ NN(inst') = \h29 =>
       /\ I' = (V[X(inst')] % 16) * 5
       /\ I' % 5 = 0
       /\ I' <= \h4B]_vars

(***************************************************************************)
(* C27: for X other than F and the operands x = V[X], y = V[Y] before the  *)
(* instruction (Y may be F or X), 8XY4 gives V[X] = (x + y) mod 256 and    *)
(* VF = 1 iff x + y > 255, 8XY5 gives V[X] = (x - y) mod 256 and VF = 1    *)
(* iff x >= y, 8XY7 gives V[X] = (y - x) mod 256 and VF = 1 iff y >= x;    *)
(* no other register changes.                                              *)
(***************************************************************************)
C27_AddSubtractFlags ==
  [][Executed /\ Top(inst') = 8 /\ N(inst') \in {4, 5, 7} /\ X(inst') # 15 =>
       LET x == V[X(inst')]
           y == V[Y(inst')]
           n == N(inst')
           result == CASE n = 4 -> (x + y) % 256
                       [] n = 5 -> (x - y) % 256
                       [] n = 7 -> (y - x) % 256
           flag == CASE n = 4 -> x + y > 255
                     [] n = 5 -> x >= y
                     [] n = 7 -> y >= x
       IN \A r \in 0..15 :
            V'[r] = IF r = X(inst') THEN result
                    ELSE IF r = 15 THEN (IF flag THEN 1 ELSE 0)
                    ELSE V[r]]_vars

\* 8015 has run on V0 = V1 = 100: the difference is 0 and there is no borrow.
C27_Witness ==
  /\ pc = "loop"
  /\ rom_name = << "flag", 0, 1, 100, 100, 5, 0 >>
  /\ inst = \h8015
  /\ V[0] = 0 /\ V[1] = 100 /\ V[15] = 1
  /\ ub = 0

(***************************************************************************)
(* C28: FX55 copies V[0..X] to mem[I..I+X] and FX65 copies mem[I..I+X] to  *)
(* V[0..X], the addresses taken within the 4 KiB of memory; both leave I   *)
(* alone, FX55 leaves the registers and every other memory cell alone,     *)
(* FX65 leaves the memory and the registers above X alone; and FX65 right  *)
(* after FX55 with the same X and I leaves every register as it was        *)
(* before the FX55.                                                        *)
(***************************************************************************)
C28_RegisterBlockCopy ==
  [][Executed /\ Top(inst') = 15 /\ NN(inst') \in {\h55, \h65} =>
       LET x == X(inst')
           cells == {(I + i) % RamSize : i \in 0..x}
       IN /\ I' = I
          /\ NN(inst') = \h55 =>
               /\ \A i \in 0..x : Peek(ram', (I + i) % RamSize) = V[i]
               /\ \A a \in (DOMAIN ram \cup DOMAIN ram') \ cells :
                    Peek(ram', a) = Peek(ram, a)
               /\ V' = V
          /\ NN(inst') = \h65 =>
               /\ \A r \in 0..15 :
                    V'[r] = IF r <= x THEN Peek(ram, (I + r) % RamSize) ELSE V[r]
               /\ ram' = ram
               /\ Top(inst) = 15 /\ NN(inst) = \h55 /\ X(inst) = x => V' = V]_vars

(***************************************************************************)
(* C29: after FX33, for every value v of V[X], mem[I], mem[I+1] and        *)
(* mem[I+2] (the addresses taken within the 4 KiB of memory) hold the      *)
(* hundreds, tens and ones digits of v: each is in 0..9 and                *)
(* 100 * mem[I] + 10 * mem[I+1] + mem[I+2] = v, so 255 gives 2, 5, 5.      *)
(* I, the registers and every other memory cell are unchanged.             *)
(***************************************************************************)
C29_DecimalDigits ==
  [][Executed /\ Top(inst') = 15 /\ NN(inst') = \h33 =>
       LET v == V[X(inst')]
           hundreds == Peek(ram', I % RamSize)
           tens == Peek(ram', (I + 1) % RamSize)
           ones == Peek(ram', (I + 2) % RamSize)
           cells == {(I + i) % RamSize : i \in 0..2}
       IN /\ hundreds \in 0..9 /\ tens \in 0..9 /\ ones \in 0..9
          /\ 100 * hundreds + 10 * tens + ones = v
          /\ v = 255 => hundreds = 2 /\ tens = 5 /\ ones = 5
          /\ \A a \in (DOMAIN ram \cup DOMAIN ram') \ cells :
               Peek(ram', a) = Peek(ram, a)
          /\ I' = I
          /\ V' = V]_vars

====
